---- MODULE Spec2Model ----
(***************************************************************************)
(* Model of rvv_disassembler.py: the decoder of one 32-bit RISC-V vector   *)
(* instruction word into an assembly string.                               *)
(*                                                                         *)
(* The decoder is a pure function of the word.  The state machine holds    *)
(* the word handed to disassemble_rvv and the string it returns; Init      *)
(* draws the word from a bounded set of encodings and the single action    *)
(* Disassemble applies the decoder to it.                                  *)
(*                                                                         *)
(* A word is kept as two 16-bit halves, [hi |-> bits 31:16, lo |-> bits    *)
(* 15:0], so that every intermediate value stays within the integers the   *)
(* model checker can represent; Bits does the shift-and-mask on the pair.  *)
(* Strings are TLA+ strings, built with \o and ToString exactly as the     *)
(* code's f-strings build them.  Python's None is the value None.          *)
(***************************************************************************)
EXTENDS Integers, Sequences, FiniteSets, TLC

VARIABLES instruction, result, pc

vars == <<instruction, result, pc>>

\* Python's None (a missing dictionary entry, a mnemonic that did not resolve).
None == "None"

\* Truth value of `if mnemonic:` for an Optional[str].
Truthy(s) == s # None /\ s # ""

\* dict.get(key): the entry, or None when the key is absent.
Get(map, key) == IF key \in DOMAIN map THEN map[key] ELSE None

\* dict.get(key, default).
GetOr(map, key, default) == IF key \in DOMAIN map THEN map[key] ELSE default

\* (instruction >> shift) & mask on a word held as [hi, lo]; mask = 2^k - 1
\* with k <= 16, so the mask is a remainder.
Bits(w, shift, mask) ==
    IF shift >= 16
    THEN (w.hi \div 2^(shift - 16)) % (mask + 1)
    ELSE ((w.lo \div 2^shift) + (w.hi % 2^shift) * 2^(16 - shift)) % (mask + 1)

\* A variant of extract_fields that takes vs2 from bits 25:21.
extract_fields_vs2_shifted(w) ==
    LET vs1_rs1 == Bits(w, 15, \h1F)
    IN  [opcode |-> Bits(w, 0, \h7F), funct6 |-> Bits(w, 26, \h3F),
         vm |-> Bits(w, 25, \h1), vs2 |-> Bits(w, 21, \h1F),
         vs1_rs1 |-> vs1_rs1, funct3 |-> Bits(w, 12, \h7),
         vd_rd |-> Bits(w, 7, \h1F), imm5 |-> vs1_rs1]

\* extract_fields: the fields of a word, imm5 being vs1_rs1 again.
extract_fields(w) ==
    LET opcode  == Bits(w, 0, \h7F)
        funct6  == Bits(w, 26, \h3F)
        vm      == Bits(w, 25, \h1)
        vs2     == Bits(w, 20, \h1F)
        vs1_rs1 == Bits(w, 15, \h1F)
        funct3  == Bits(w, 12, \h7)
        vd_rd   == Bits(w, 7, \h1F)
        imm5    == vs1_rs1
    IN  [opcode |-> opcode, funct6 |-> funct6, vm |-> vm, vs2 |-> vs2,
         vs1_rs1 |-> vs1_rs1, funct3 |-> funct3, vd_rd |-> vd_rd, imm5 |-> imm5]

\* get_operand_category: the category_map dictionary, keyed by funct3.
category_map ==
    \b000 :> "OPIVV" @@
    \b001 :> "OPFVV" @@
    \b010 :> "OPMVV" @@
    \b011 :> "OPIVI" @@
    \b100 :> "OPIVX" @@
    \b101 :> "OPFVF" @@
    \b110 :> "OPMVX" @@
    \b111 :> "OPCFG"

get_operand_category(funct3) == Get(category_map, funct3)

\* get_integer_arithmetic_mnemonic: the opcode_map dictionary, keyed by (category, funct6).
opcode_map ==
    <<"OPIVV", \b000000>> :> "vadd" @@
    <<"OPIVV", \b000010>> :> "vsub" @@
    <<"OPIVV", \b000011>> :> "vrsub" @@
    <<"OPIVV", \b000100>> :> "vminu" @@
    <<"OPIVV", \b000101>> :> "vmin" @@
    <<"OPIVV", \b000110>> :> "vmaxu" @@
    <<"OPIVV", \b000111>> :> "vmax" @@
    <<"OPIVV", \b001001>> :> "vand" @@
    <<"OPIVV", \b001010>> :> "vor" @@
    <<"OPIVV", \b001011>> :> "vxor" @@
    <<"OPIVV", \b001100>> :> "vrgather" @@
    <<"OPIVV", \b001110>> :> "vrgather" @@
    <<"OPIVV", \b001111>> :> "vcompress" @@
    <<"OPIVV", \b010000>> :> "vadc" @@
    <<"OPIVV", \b010010>> :> "vmsbc" @@
    <<"OPIVV", \b010011>> :> "vmsbc" @@
    <<"OPIVV", \b010100>> :> "vmerge" @@
    <<"OPIVV", \b010111>> :> "vmv" @@
    <<"OPIVV", \b011000>> :> "vmseq" @@
    <<"OPIVV", \b011001>> :> "vmsne" @@
    <<"OPIVV", \b011010>> :> "vmsltu" @@
    <<"OPIVV", \b011011>> :> "vmslt" @@
    <<"OPIVV", \b011100>> :> "vmsleu" @@
    <<"OPIVV", \b011101>> :> "vmsle" @@
    <<"OPIVV", \b011110>> :> "vmsgtu" @@
    <<"OPIVV", \b011111>> :> "vmsgt" @@
    <<"OPIVV", \b100000>> :> "vsaddu" @@
    <<"OPIVV", \b100001>> :> "vsadd" @@
    <<"OPIVV", \b100010>> :> "vssubu" @@
    <<"OPIVV", \b100011>> :> "vssub" @@
    <<"OPIVV", \b100100>> :> "vaaddu" @@
    <<"OPIVV", \b100101>> :> "vaadd" @@
    <<"OPIVV", \b100110>> :> "vasubu" @@
    <<"OPIVV", \b100111>> :> "vasub" @@
    <<"OPIVV", \b101000>> :> "vsmul" @@
    <<"OPIVV", \b101010>> :> "vssrl" @@
    <<"OPIVV", \b101011>> :> "vssra" @@
    <<"OPIVV", \b101100>> :> "vnclipu" @@
    <<"OPIVV", \b101101>> :> "vnclip" @@
    <<"OPIVX", \b000000>> :> "vadd" @@
    <<"OPIVX", \b000010>> :> "vsub" @@
    <<"OPIVX", \b000011>> :> "vrsub" @@
    <<"OPIVX", \b000100>> :> "vminu" @@
    <<"OPIVX", \b000101>> :> "vmin" @@
    <<"OPIVX", \b000110>> :> "vmaxu" @@
    <<"OPIVX", \b000111>> :> "vmax" @@
    <<"OPIVX", \b001001>> :> "vand" @@
    <<"OPIVX", \b001010>> :> "vor" @@
    <<"OPIVX", \b001011>> :> "vxor" @@
    <<"OPIVX", \b001100>> :> "vrgather" @@
    <<"OPIVX", \b001110>> :> "vslideup" @@
    <<"OPIVX", \b001111>> :> "vslidedown" @@
    <<"OPIVX", \b010000>> :> "vadc" @@
    <<"OPIVX", \b010010>> :> "vmsbc" @@
    <<"OPIVX", \b010100>> :> "vmerge" @@
    <<"OPIVX", \b010111>> :> "vmv" @@
    <<"OPIVX", \b011000>> :> "vmseq" @@
    <<"OPIVX", \b011001>> :> "vmsne" @@
    <<"OPIVX", \b011010>> :> "vmsltu" @@
    <<"OPIVX", \b011011>> :> "vmslt" @@
    <<"OPIVX", \b011100>> :> "vmsleu" @@
    <<"OPIVX", \b011101>> :> "vmsle" @@
    <<"OPIVX", \b011110>> :> "vmsgtu" @@
    <<"OPIVX", \b011111>> :> "vmsgt" @@
    <<"OPIVX", \b100000>> :> "vsaddu" @@
    <<"OPIVX", \b100001>> :> "vsadd" @@
    <<"OPIVX", \b100010>> :> "vssubu" @@
    <<"OPIVX", \b100011>> :> "vssub" @@
    <<"OPIVX", \b100100>> :> "vaaddu" @@
    <<"OPIVX", \b100101>> :> "vaadd" @@
    <<"OPIVX", \b100110>> :> "vasubu" @@
    <<"OPIVX", \b100111>> :> "vasub" @@
    <<"OPIVX", \b101000>> :> "vsmul" @@
    <<"OPIVX", \b101010>> :> "vssrl" @@
    <<"OPIVX", \b101011>> :> "vssra" @@
    <<"OPIVX", \b101100>> :> "vnclipu" @@
    <<"OPIVX", \b101101>> :> "vnclip" @@
    <<"OPIVX", \b110000>> :> "vwaddu" @@
    <<"OPIVX", \b110001>> :> "vwadd" @@
    <<"OPIVX", \b110010>> :> "vwsubu" @@
    <<"OPIVX", \b110011>> :> "vwsub" @@
    <<"OPIVX", \b110100>> :> "vwaddu" @@
    <<"OPIVX", \b110101>> :> "vwadd" @@
    <<"OPIVX", \b110110>> :> "vwsubu" @@
    <<"OPIVX", \b110111>> :> "vwsub" @@
    <<"OPIVX", \b111000>> :> "vwmulu" @@
    <<"OPIVX", \b111010>> :> "vwmulsu" @@
    <<"OPIVX", \b111011>> :> "vwmul" @@
    <<"OPIVX", \b111100>> :> "vwmaccu" @@
    <<"OPIVX", \b111101>> :> "vwmacc" @@
    <<"OPIVX", \b111110>> :> "vwmaccsu" @@
    <<"OPIVX", \b111111>> :> "vwmaccus" @@
    <<"OPIVI", \b000000>> :> "vadd" @@
    <<"OPIVI", \b000011>> :> "vrsub" @@
    <<"OPIVI", \b000100>> :> "vminu" @@
    <<"OPIVI", \b000101>> :> "vmin" @@
    <<"OPIVI", \b000110>> :> "vmaxu" @@
    <<"OPIVI", \b000111>> :> "vmax" @@
    <<"OPIVI", \b001001>> :> "vand" @@
    <<"OPIVI", \b001010>> :> "vor" @@
    <<"OPIVI", \b001011>> :> "vxor" @@
    <<"OPIVI", \b001100>> :> "vrgather" @@
    <<"OPIVI", \b001110>> :> "vslideup" @@
    <<"OPIVI", \b001111>> :> "vslidedown" @@
    <<"OPIVI", \b010000>> :> "vadc" @@
    <<"OPIVI", \b010100>> :> "vmerge" @@
    <<"OPIVI", \b010111>> :> "vmv" @@
    <<"OPIVI", \b011000>> :> "vmseq" @@
    <<"OPIVI", \b011001>> :> "vmsne" @@
    <<"OPIVI", \b011010>> :> "vmsltu" @@
    <<"OPIVI", \b011011>> :> "vmslt" @@
    <<"OPIVI", \b011100>> :> "vmsleu" @@
    <<"OPIVI", \b011101>> :> "vmsle" @@
    <<"OPIVI", \b011110>> :> "vmsgtu" @@
    <<"OPIVI", \b011111>> :> "vmsgt" @@
    <<"OPIVI", \b100000>> :> "vsaddu" @@
    <<"OPIVI", \b100001>> :> "vsadd" @@
    <<"OPIVI", \b100010>> :> "vssubu" @@
    <<"OPIVI", \b100011>> :> "vssub" @@
    <<"OPIVI", \b100100>> :> "vaaddu" @@
    <<"OPIVI", \b100101>> :> "vaadd" @@
    <<"OPIVI", \b100110>> :> "vasubu" @@
    <<"OPIVI", \b100111>> :> "vasub" @@
    <<"OPIVI", \b101010>> :> "vssrl" @@
    <<"OPIVI", \b101011>> :> "vssra" @@
    <<"OPIVI", \b101100>> :> "vnclipu" @@
    <<"OPIVI", \b101101>> :> "vnclip"

\* get_shift_mnemonic: the shift_map dictionary, keyed by (category, funct6).
shift_map ==
    <<"OPIVV", \b010101>> :> "vsll" @@
    <<"OPIVV", \b010110>> :> "vsmul" @@
    <<"OPIVX", \b010101>> :> "vsll" @@
    <<"OPIVX", \b011000>> :> "vsrl" @@
    <<"OPIVI", \b010101>> :> "vsll" @@
    <<"OPIVI", \b011000>> :> "vsrl" @@
    <<"OPIVI", \b011001>> :> "vsra"

\* get_multiply_mnemonic: the mul_map dictionary, keyed by (category, funct6).
mul_map ==
    <<"OPIVV", \b100000>> :> "vmul" @@
    <<"OPIVV", \b100001>> :> "vmulh" @@
    <<"OPIVV", \b100010>> :> "vmulhsu" @@
    <<"OPIVV", \b100011>> :> "vmulhu" @@
    <<"OPIVV", \b100100>> :> "vmadd" @@
    <<"OPIVV", \b100101>> :> "vnmsub" @@
    <<"OPIVV", \b100110>> :> "vmacc" @@
    <<"OPIVV", \b100111>> :> "vnmsac" @@
    <<"OPIVV", \b101000>> :> "vwmul" @@
    <<"OPIVV", \b101001>> :> "vwmulu" @@
    <<"OPIVV", \b101010>> :> "vwmulsu" @@
    <<"OPIVV", \b101100>> :> "vwmacc" @@
    <<"OPIVV", \b101101>> :> "vwmaccu" @@
    <<"OPIVV", \b101110>> :> "vwmaccsu" @@
    <<"OPIVV", \b101111>> :> "vwmaccus" @@
    <<"OPIVV", \b110000>> :> "vwaddu" @@
    <<"OPIVV", \b110001>> :> "vwadd" @@
    <<"OPIVV", \b110010>> :> "vwsubu" @@
    <<"OPIVV", \b110011>> :> "vwsub" @@
    <<"OPIVV", \b110100>> :> "vwaddu" @@
    <<"OPIVV", \b110101>> :> "vwadd" @@
    <<"OPIVV", \b110110>> :> "vwsubu" @@
    <<"OPIVV", \b110111>> :> "vwsub" @@
    <<"OPIVX", \b100000>> :> "vmul" @@
    <<"OPIVX", \b100001>> :> "vmulh" @@
    <<"OPIVX", \b100010>> :> "vmulhsu" @@
    <<"OPIVX", \b100011>> :> "vmulhu" @@
    <<"OPIVX", \b100100>> :> "vmadd" @@
    <<"OPIVX", \b100101>> :> "vnmsub" @@
    <<"OPIVX", \b100110>> :> "vmacc" @@
    <<"OPIVX", \b100111>> :> "vnmsac"

\* get_floating_point_mnemonic: the fp_map dictionary, keyed by (category, funct6).
fp_map ==
    <<"OPFVV", \b000000>> :> "vfadd" @@
    <<"OPFVV", \b000010>> :> "vfsub" @@
    <<"OPFVV", \b000100>> :> "vfmin" @@
    <<"OPFVV", \b000101>> :> "vfmax" @@
    <<"OPFVV", \b000110>> :> "vfsgnj" @@
    <<"OPFVV", \b000111>> :> "vfsgnjn" @@
    <<"OPFVV", \b001000>> :> "vfsgnjx" @@
    <<"OPFVV", \b001010>> :> "vfmul" @@
    <<"OPFVV", \b001100>> :> "vfdiv" @@
    <<"OPFVV", \b001110>> :> "vfrdiv" @@
    <<"OPFVV", \b010000>> :> "vfmacc" @@
    <<"OPFVV", \b010001>> :> "vfnmacc" @@
    <<"OPFVV", \b010010>> :> "vfmsac" @@
    <<"OPFVV", \b010011>> :> "vfnmsac" @@
    <<"OPFVV", \b010100>> :> "vfmadd" @@
    <<"OPFVV", \b010101>> :> "vfnmadd" @@
    <<"OPFVV", \b010110>> :> "vfmsub" @@
    <<"OPFVV", \b010111>> :> "vfnmsub" @@
    <<"OPFVV", \b011000>> :> "vfmul" @@
    <<"OPFVV", \b011010>> :> "vfredosum" @@
    <<"OPFVV", \b011011>> :> "vfredusum" @@
    <<"OPFVV", \b011100>> :> "vfredmax" @@
    <<"OPFVV", \b011101>> :> "vfredmin" @@
    <<"OPFVV", \b100000>> :> "vfwmacc" @@
    <<"OPFVV", \b100001>> :> "vfwnmacc" @@
    <<"OPFVV", \b100010>> :> "vfwmsac" @@
    <<"OPFVV", \b100011>> :> "vfwnmsac" @@
    <<"OPFVV", \b100100>> :> "vfwmul" @@
    <<"OPFVV", \b101000>> :> "vfadd" @@
    <<"OPFVV", \b101010>> :> "vfsub" @@
    <<"OPFVV", \b101100>> :> "vfwadd" @@
    <<"OPFVV", \b101101>> :> "vfwsub" @@
    <<"OPFVV", \b101110>> :> "vfwadd" @@
    <<"OPFVV", \b101111>> :> "vfwsub" @@
    <<"OPFVV", \b110000>> :> "vfmul" @@
    <<"OPFVV", \b110100>> :> "vfwmul" @@
    <<"OPFVV", \b110110>> :> "vfwmul" @@
    <<"OPFVV", \b111000>> :> "vfdiv" @@
    <<"OPFVV", \b111010>> :> "vfrdiv" @@
    <<"OPFVV", \b111100>> :> "vfwmacc" @@
    <<"OPFVV", \b111101>> :> "vfwnmacc" @@
    <<"OPFVV", \b111110>> :> "vfwmsac" @@
    <<"OPFVV", \b111111>> :> "vfwnmsac" @@
    <<"OPFVF", \b000000>> :> "vfadd" @@
    <<"OPFVF", \b000010>> :> "vfsub" @@
    <<"OPFVF", \b000100>> :> "vfmin" @@
    <<"OPFVF", \b000101>> :> "vfmax" @@
    <<"OPFVF", \b000110>> :> "vfsgnj" @@
    <<"OPFVF", \b000111>> :> "vfsgnjn" @@
    <<"OPFVF", \b001000>> :> "vfsgnjx" @@
    <<"OPFVF", \b001010>> :> "vfmul" @@
    <<"OPFVF", \b001100>> :> "vfdiv" @@
    <<"OPFVF", \b001110>> :> "vfrdiv" @@
    <<"OPFVF", \b010000>> :> "vfmacc" @@
    <<"OPFVF", \b010001>> :> "vfnmacc" @@
    <<"OPFVF", \b010010>> :> "vfmsac" @@
    <<"OPFVF", \b010011>> :> "vfnmsac" @@
    <<"OPFVF", \b010100>> :> "vfmadd" @@
    <<"OPFVF", \b010101>> :> "vfnmadd" @@
    <<"OPFVF", \b010110>> :> "vfmsub" @@
    <<"OPFVF", \b010111>> :> "vfnmsub" @@
    <<"OPFVF", \b100000>> :> "vfwmacc" @@
    <<"OPFVF", \b100001>> :> "vfwnmacc" @@
    <<"OPFVF", \b100010>> :> "vfwmsac" @@
    <<"OPFVF", \b100011>> :> "vfwnmsac" @@
    <<"OPFVF", \b100100>> :> "vfwmul" @@
    <<"OPFVF", \b101000>> :> "vfadd" @@
    <<"OPFVF", \b101010>> :> "vfsub" @@
    <<"OPFVF", \b101100>> :> "vfwadd" @@
    <<"OPFVF", \b101101>> :> "vfwsub" @@
    <<"OPFVF", \b101110>> :> "vfwadd" @@
    <<"OPFVF", \b101111>> :> "vfwsub" @@
    <<"OPFVF", \b110000>> :> "vfmul" @@
    <<"OPFVF", \b110100>> :> "vfwmul" @@
    <<"OPFVF", \b110110>> :> "vfwmul" @@
    <<"OPFVF", \b111000>> :> "vfdiv" @@
    <<"OPFVF", \b111010>> :> "vfrdiv" @@
    <<"OPFVF", \b111100>> :> "vfwmacc" @@
    <<"OPFVF", \b111101>> :> "vfwnmacc" @@
    <<"OPFVF", \b111110>> :> "vfwmsac" @@
    <<"OPFVF", \b111111>> :> "vfwnmsac"

\* get_reduction_mnemonic: the red_map dictionary, keyed by (category, funct6).
red_map ==
    <<"OPIVV", \b000000>> :> "vredsum" @@
    <<"OPIVV", \b000001>> :> "vredand" @@
    <<"OPIVV", \b000010>> :> "vredor" @@
    <<"OPIVV", \b000011>> :> "vredxor" @@
    <<"OPIVV", \b000100>> :> "vredminu" @@
    <<"OPIVV", \b000101>> :> "vredmin" @@
    <<"OPIVV", \b000110>> :> "vredmaxu" @@
    <<"OPIVV", \b000111>> :> "vredmax" @@
    <<"OPIVX", \b000000>> :> "vredsum" @@
    <<"OPIVX", \b000001>> :> "vredand" @@
    <<"OPIVX", \b000010>> :> "vredor" @@
    <<"OPIVX", \b000011>> :> "vredxor" @@
    <<"OPIVX", \b000100>> :> "vredminu" @@
    <<"OPIVX", \b000101>> :> "vredmin" @@
    <<"OPIVX", \b000110>> :> "vredmaxu" @@
    <<"OPIVX", \b000111>> :> "vredmax"

\* get_mask_mnemonic: the mask_map dictionary, keyed by (category, funct6).
mask_map ==
    <<"OPMVV", \b010000>> :> "vadc" @@
    <<"OPMVV", \b010010>> :> "vmsbc" @@
    <<"OPMVV", \b010100>> :> "vmerge" @@
    <<"OPMVV", \b010111>> :> "vmv" @@
    <<"OPMVV", \b011000>> :> "vmseq" @@
    <<"OPMVV", \b011001>> :> "vmsne" @@
    <<"OPMVV", \b011010>> :> "vmsltu" @@
    <<"OPMVV", \b011011>> :> "vmslt" @@
    <<"OPMVV", \b011100>> :> "vmsleu" @@
    <<"OPMVV", \b011101>> :> "vmsle" @@
    <<"OPMVV", \b011110>> :> "vmsgtu" @@
    <<"OPMVV", \b011111>> :> "vmsgt" @@
    <<"OPMVX", \b010000>> :> "vadc" @@
    <<"OPMVX", \b010010>> :> "vmsbc" @@
    <<"OPMVX", \b010100>> :> "vmerge" @@
    <<"OPMVX", \b010111>> :> "vmv" @@
    <<"OPMVX", \b011000>> :> "vmseq" @@
    <<"OPMVX", \b011001>> :> "vmsne" @@
    <<"OPMVX", \b011010>> :> "vmsltu" @@
    <<"OPMVX", \b011011>> :> "vmslt" @@
    <<"OPMVX", \b011100>> :> "vmsleu" @@
    <<"OPMVX", \b011101>> :> "vmsle" @@
    <<"OPMVX", \b011110>> :> "vmsgtu" @@
    <<"OPMVX", \b011111>> :> "vmsgt"

get_integer_arithmetic_mnemonic(funct6, category) == Get(opcode_map, <<category, funct6>>)

get_shift_mnemonic(funct6, category) == Get(shift_map, <<category, funct6>>)

get_multiply_mnemonic(funct6, category) == Get(mul_map, <<category, funct6>>)

get_floating_point_mnemonic(funct6, category) == Get(fp_map, <<category, funct6>>)

get_reduction_mnemonic(funct6, category) == Get(red_map, <<category, funct6>>)

get_mask_mnemonic(funct6, category) == Get(mask_map, <<category, funct6>>)

\* get_config_mnemonic: vsetvl/vsetvli on funct6 = 0, vsetivli on 0b100000.
get_config_mnemonic(funct6, vs2, vs1_rs1) ==
    IF funct6 = \b000000
    THEN IF vs2 = \b11111 THEN "vsetvli" ELSE "vsetvl"
    ELSE IF funct6 = \b100000 THEN "vsetivli"
    ELSE None

\* A variant of get_mnemonic that tries the multiply table ahead of the
\* arithmetic table in every integer category.
get_mnemonic_multiply_first(funct6, category, vs2, vs1_rs1, vd_rd) ==
    LET shift      == get_shift_mnemonic(funct6, category)
        multiply   == get_multiply_mnemonic(funct6, category)
        arithmetic == get_integer_arithmetic_mnemonic(funct6, category)
        reduction  == get_reduction_mnemonic(funct6, category)
        reduction_funct6 == \b000000 .. \b000111
    IN  IF category = "OPCFG" THEN get_config_mnemonic(funct6, vs2, vs1_rs1)
        ELSE IF category \in {"OPFVV", "OPFVF"}
        THEN get_floating_point_mnemonic(funct6, category)
        ELSE IF category \in {"OPMVV", "OPMVX"}
        THEN get_mask_mnemonic(funct6, category)
        ELSE IF category \in {"OPIVV", "OPIVX", "OPIVI"}
        THEN IF Truthy(shift) THEN shift
             ELSE IF Truthy(multiply) THEN multiply
             ELSE IF Truthy(arithmetic) THEN arithmetic
             ELSE IF funct6 \in reduction_funct6 /\ Truthy(reduction) THEN reduction
             ELSE None
        ELSE None

\* A variant of get_mnemonic that tries the reduction table ahead of the
\* multiply and arithmetic tables.
get_mnemonic_reduction_first(funct6, category, vs2, vs1_rs1, vd_rd) ==
    LET shift      == get_shift_mnemonic(funct6, category)
        multiply   == get_multiply_mnemonic(funct6, category)
        arithmetic == get_integer_arithmetic_mnemonic(funct6, category)
        reduction  == get_reduction_mnemonic(funct6, category)
        multiply_arithmetic_conflict_range == \b100000 .. \b100111
    IN  IF category = "OPCFG" THEN get_config_mnemonic(funct6, vs2, vs1_rs1)
        ELSE IF category \in {"OPFVV", "OPFVF"}
        THEN get_floating_point_mnemonic(funct6, category)
        ELSE IF category \in {"OPMVV", "OPMVX"}
        THEN get_mask_mnemonic(funct6, category)
        ELSE IF category \in {"OPIVV", "OPIVX", "OPIVI"}
        THEN IF Truthy(shift) THEN shift
             ELSE IF Truthy(reduction) THEN reduction
             ELSE IF funct6 \in multiply_arithmetic_conflict_range
             THEN IF category = "OPIVV" /\ Truthy(multiply) THEN multiply
                  ELSE IF Truthy(arithmetic) THEN arithmetic
                  ELSE IF Truthy(multiply) THEN multiply
                  ELSE None
             ELSE IF Truthy(multiply) THEN multiply
                  ELSE IF Truthy(arithmetic) THEN arithmetic
                  ELSE None
        ELSE None

\* get_mnemonic: routes on the category; the integer categories try the
\* tables in the code's order, each `if mnemonic: return mnemonic` being one
\* IF Truthy(..) THEN.
get_mnemonic(funct6, category, vs2, vs1_rs1, vd_rd) ==
    LET shift      == get_shift_mnemonic(funct6, category)
        multiply   == get_multiply_mnemonic(funct6, category)
        arithmetic == get_integer_arithmetic_mnemonic(funct6, category)
        reduction  == get_reduction_mnemonic(funct6, category)
        multiply_arithmetic_conflict_range == \b100000 .. \b100111
        reduction_funct6 == {\b000000, \b000001, \b000010, \b000011,
                             \b000100, \b000101, \b000110, \b000111}
        last == IF funct6 \in reduction_funct6 /\ Truthy(reduction)
                THEN reduction
                ELSE None
    IN  IF category = "OPCFG" THEN get_config_mnemonic(funct6, vs2, vs1_rs1)
        ELSE IF category \in {"OPFVV", "OPFVF"}
        THEN get_floating_point_mnemonic(funct6, category)
        ELSE IF category \in {"OPMVV", "OPMVX"}
        THEN get_mask_mnemonic(funct6, category)
        ELSE IF category \in {"OPIVV", "OPIVX", "OPIVI"}
        THEN IF Truthy(shift) THEN shift
             ELSE IF funct6 \in multiply_arithmetic_conflict_range
             THEN IF category = "OPIVV" /\ Truthy(multiply) THEN multiply
                  ELSE IF Truthy(arithmetic) THEN arithmetic
                  ELSE IF Truthy(multiply) THEN multiply
                  ELSE last
             ELSE IF Truthy(multiply) THEN multiply
                  ELSE IF Truthy(arithmetic) THEN arithmetic
                  ELSE last
        ELSE None

\* decode_vtype: the 11-bit vtype immediate as "sew, lmul, ta, ma", or the
\* token ILLEGAL when the two top bits are not both zero.
sew_map == 0 :> "e8" @@ 1 :> "e16" @@ 2 :> "e32" @@ 3 :> "e64"

lmul_map ==
    0 :> "m1" @@ 1 :> "m2" @@ 2 :> "m4" @@ 3 :> "m8" @@
    4 :> "mf2" @@ 5 :> "mf4" @@ 6 :> "mf8"

\* A variant of decode_vtype that reports an LMUL field outside lmul_map as
\* reserved.
decode_vtype_lmul_reserved(vtype) ==
    LET vill      == (vtype \div 2^9) % 4
        vma       == (vtype \div 2^8) % 2
        vta       == (vtype \div 2^7) % 2
        vsew      == (vtype \div 2^5) % 4
        vlmul_raw == vtype % 8
        sew       == GetOr(sew_map, vsew, "e" \o ToString(8 * 2^vsew))
        lmul      == GetOr(lmul_map, vlmul_raw, "reserved")
        ta        == IF vta = 0 THEN "ta" ELSE "tu"
        ma        == IF vma = 0 THEN "ma" ELSE "mu"
    IN  IF vill # 0 THEN "ILLEGAL"
        ELSE sew \o ", " \o lmul \o ", " \o ta \o ", " \o ma

decode_vtype(vtype) ==
    LET vill      == (vtype \div 2^9) % 4
        vma       == (vtype \div 2^8) % 2
        vta       == (vtype \div 2^7) % 2
        vsew      == (vtype \div 2^5) % 4
        vlmul_raw == vtype % 8
        sew       == GetOr(sew_map, vsew, "e" \o ToString(8 * 2^vsew))
        lmul      == GetOr(lmul_map, vlmul_raw, "m" \o ToString(vlmul_raw))
        ta        == IF vta = 0 THEN "ta" ELSE "tu"
        ma        == IF vma = 0 THEN "ma" ELSE "mu"
    IN  IF vill # 0 THEN "ILLEGAL"
        ELSE sew \o ", " \o lmul \o ", " \o ta \o ", " \o ma

\* get_load_store_mnemonic: the unit-stride vector forms (funct3 = 7, mew = 0,
\* nf = 0) by the width in bits 24:20, the scalar forms by funct3, else None.
eew_map ==
    \b000 :> <<"vle8", "vse8">> @@
    \b001 :> <<"vle16", "vse16">> @@
    \b010 :> <<"vle32", "vse32">> @@
    \b011 :> <<"vle64", "vse64">>

get_load_store_mnemonic(opcode, funct3, width, mop, mew, nf) ==
    LET is_load  == (opcode = \h07)
        is_store == (opcode = \h27)
        eew_bits == (width \div 2^2) % 8
        mnemonic_pair == Get(eew_map, eew_bits)
        width_map ==
            \b000 :> (IF is_load THEN "lb" ELSE "sb") @@
            \b001 :> (IF is_load THEN "lh" ELSE "sh") @@
            \b010 :> (IF is_load THEN "lw" ELSE "sw") @@
            \b011 :> (IF is_load THEN "ld" ELSE "sd")
        scalar == IF mop = \b00 /\ funct3 # \b111
                  THEN Get(width_map, funct3)
                  ELSE None
    IN  IF ~(is_load \/ is_store) THEN None
        ELSE IF mop = \b00 /\ funct3 = \b111 /\ mew = 0 /\ nf = 0
        THEN IF width = 0 THEN (IF is_load THEN "vle64" ELSE "vse64")
             ELSE IF mnemonic_pair # None
             THEN (IF is_load THEN mnemonic_pair[1] ELSE mnemonic_pair[2])
             ELSE scalar
        ELSE scalar

\* A variant of format_load_store that never appends the mask qualifier.
format_load_store_unmasked(w) ==
    LET opcode == Bits(w, 0, \h7F)
        funct3 == Bits(w, 12, \h7)
        vd_rd  == Bits(w, 7, \h1F)
        rs1    == Bits(w, 15, \h1F)
        width  == Bits(w, 20, \h1F)
        mop    == Bits(w, 26, \h3)
        mew    == Bits(w, 28, \h1)
        nf     == Bits(w, 29, \h7)
        mnemonic == get_load_store_mnemonic(opcode, funct3, width, mop, mew, nf)
        suffix == IF funct3 = \b111 /\ mop = \b00 THEN ".v" ELSE ""
        full_mnemonic == mnemonic \o suffix
    IN  IF mnemonic = None THEN "UNKNOWN"
        ELSE full_mnemonic \o " v" \o ToString(vd_rd) \o ", (x" \o ToString(rs1) \o ")"

\* format_load_store: mnemonic, ".v" for the vector unit-stride forms, the
\* destination and base registers, and ", v0.t" when vm = 0.
format_load_store(w) ==
    LET opcode == Bits(w, 0, \h7F)
        funct3 == Bits(w, 12, \h7)
        vd_rd  == Bits(w, 7, \h1F)
        rs1    == Bits(w, 15, \h1F)
        width  == Bits(w, 20, \h1F)
        vm     == Bits(w, 25, \h1)
        mop    == Bits(w, 26, \h3)
        mew    == Bits(w, 28, \h1)
        nf     == Bits(w, 29, \h7)
        mnemonic == get_load_store_mnemonic(opcode, funct3, width, mop, mew, nf)
        suffix == IF funct3 = \b111 /\ mop = \b00 THEN ".v" ELSE ""
        full_mnemonic == mnemonic \o suffix
    IN  IF mnemonic = None THEN "UNKNOWN"
        ELSE IF vm = 0
        THEN full_mnemonic \o " v" \o ToString(vd_rd) \o ", (x" \o ToString(rs1) \o "), v0.t"
        ELSE full_mnemonic \o " v" \o ToString(vd_rd) \o ", (x" \o ToString(rs1) \o ")"

\* A variant of sign_extend_imm5 that masks the value and never subtracts.
sign_extend_imm5_unsigned(imm5) == imm5 % (\h1F + 1)

\* sign_extend_imm5: bit 4 set means the value minus 32.
sign_extend_imm5(imm5) ==
    LET imm == imm5 % (\h1F + 1)
    IN  IF (imm \div \h10) % 2 # 0 THEN imm - 32 ELSE imm

\* format_instruction: the suffix of the category, then the operand list of
\* the category, with ", v0.t" appended when vm = 0.
suffix_map ==
    "OPIVV" :> ".vv" @@
    "OPIVX" :> ".vx" @@
    "OPIVI" :> ".vi" @@
    "OPFVV" :> ".vv" @@
    "OPFVF" :> ".vf" @@
    "OPMVV" :> ".vv" @@
    "OPMVX" :> ".vx" @@
    "OPCFG" :> ""

format_instruction(mnemonic, category, vd_rd, vs2, vs1_rs1, imm5, vm) ==
    LET suffix == GetOr(suffix_map, category, "")
        full_mnemonic == mnemonic \o suffix
        vd  == ToString(vd_rd)
        v2  == ToString(vs2)
        v1  == ToString(vs1_rs1)
        imm_val == sign_extend_imm5(imm5)
    IN  IF category = "OPCFG"
        THEN IF mnemonic = "vsetvl"
             THEN full_mnemonic \o " x" \o vd \o ", x" \o v1 \o ", x" \o v2
             ELSE IF mnemonic = "vsetivli"
             THEN full_mnemonic \o " x" \o vd \o ", " \o ToString(imm5) \o ", " \o v2
             ELSE "UNKNOWN_FORMAT"
        ELSE IF category = "OPIVI"
        THEN IF vm = 0
             THEN full_mnemonic \o " v" \o vd \o ", v" \o v2 \o ", " \o ToString(imm_val) \o ", v0.t"
             ELSE full_mnemonic \o " v" \o vd \o ", v" \o v2 \o ", " \o ToString(imm_val)
        ELSE IF category \in {"OPIVX", "OPFVF", "OPMVX"}
        THEN IF vm = 0
             THEN full_mnemonic \o " v" \o vd \o ", v" \o v2 \o ", x" \o v1 \o ", v0.t"
             ELSE full_mnemonic \o " v" \o vd \o ", v" \o v2 \o ", x" \o v1
        ELSE IF category \in {"OPIVV", "OPFVV", "OPMVV"}
        THEN IF vm = 0
             THEN full_mnemonic \o " v" \o vd \o ", v" \o v2 \o ", v" \o v1 \o ", v0.t"
             ELSE full_mnemonic \o " v" \o vd \o ", v" \o v2 \o ", v" \o v1
        ELSE full_mnemonic \o " v" \o vd \o ", v" \o v2 \o ", v" \o v1

\* A variant of decode_common that hands back the unresolved mnemonic itself
\* (`return mnemonic`) where the code returns the sentinel.
decode_common_returns_mnemonic(w, category) ==
    LET f        == extract_fields(w)
        mnemonic == get_mnemonic(f.funct6, category, f.vs2, f.vs1_rs1, f.vd_rd)
    IN  IF mnemonic = None THEN mnemonic
        ELSE format_instruction(mnemonic, category, f.vd_rd, f.vs2,
                                f.vs1_rs1, f.imm5, f.vm)

\* disassemble_rvv, the common tail: the fields, the mnemonic lookup, UNKNOWN
\* when it does not resolve, else the formatted instruction.
decode_common(w, category) ==
    LET f        == extract_fields(w)
        mnemonic == get_mnemonic(f.funct6, category, f.vs2, f.vs1_rs1, f.vd_rd)
    IN  IF mnemonic = None THEN "UNKNOWN"
        ELSE format_instruction(mnemonic, category, f.vd_rd, f.vs2,
                                f.vs1_rs1, f.imm5, f.vm)

\* A variant of decode_configuration without the `elif vs2_lower == 0b11111`
\* return: a word with bits 24:20 = 31 goes on to the mnemonic lookup.
decode_configuration_no_vsetvli(w, category) ==
    LET vtype        == Bits(w, 20, \h7FF)
        funct6_upper == Bits(w, 26, \h3F)
        vd_rd        == Bits(w, 7, \h1F)
        vs1_rs1      == Bits(w, 15, \h1F)
        f            == extract_fields(w)
        mnemonic     == get_mnemonic(f.funct6, category, f.vs2, f.vs1_rs1, f.vd_rd)
        vtype_str    == decode_vtype(vtype)
    IN  IF funct6_upper = \b100000
        THEN "vsetivli x" \o ToString(vd_rd) \o ", " \o ToString(vs1_rs1)
             \o ", " \o ToString((vtype \div 2^5) % (\h1F + 1))
        ELSE IF Truthy(mnemonic)
        THEN format_instruction(mnemonic, category, f.vd_rd, f.vs2,
                                f.vs1_rs1, f.imm5, f.vm)
        ELSE IF vtype_str # "ILLEGAL"
        THEN "vsetvli x" \o ToString(vd_rd) \o ", x" \o ToString(vs1_rs1)
             \o ", " \o vtype_str
        ELSE decode_common(w, category)

\* disassemble_rvv, the configuration branch: vsetivli on funct6 = 0b100000,
\* vsetvli on bits 24:20 = 31, else the looked-up mnemonic, else vsetvli again
\* unless the vtype is ILLEGAL, and then on to the common tail.
decode_configuration(w, category) ==
    LET vtype        == Bits(w, 20, \h7FF)
        vs2_lower    == vtype % (\h1F + 1)
        funct6_upper == Bits(w, 26, \h3F)
        vd_rd        == Bits(w, 7, \h1F)
        vs1_rs1      == Bits(w, 15, \h1F)
        f            == extract_fields(w)
        mnemonic     == get_mnemonic(f.funct6, category, f.vs2, f.vs1_rs1, f.vd_rd)
        vtype_str    == decode_vtype(vtype)
    IN  IF funct6_upper = \b100000
        THEN "vsetivli x" \o ToString(vd_rd) \o ", " \o ToString(vs1_rs1)
             \o ", " \o ToString((vtype \div 2^5) % (\h1F + 1))
        ELSE IF vs2_lower = \b11111
        THEN "vsetvli x" \o ToString(vd_rd) \o ", x" \o ToString(vs1_rs1)
             \o ", " \o vtype_str
        ELSE IF Truthy(mnemonic)
        THEN format_instruction(mnemonic, category, f.vd_rd, f.vs2,
                                f.vs1_rs1, f.imm5, f.vm)
        ELSE IF vtype_str # "ILLEGAL"
        THEN "vsetvli x" \o ToString(vd_rd) \o ", x" \o ToString(vs1_rs1)
             \o ", " \o vtype_str
        ELSE decode_common(w, category)

\* A variant of disassemble_rvv without the `if opcode != 0x57` return: every
\* word that is no load or store is decoded as a vector arithmetic word.
disassemble_rvv_any_opcode(w) ==
    LET opcode   == Bits(w, 0, \h7F)
        funct3   == Bits(w, 12, \h7)
        category == get_operand_category(funct3)
    IN  IF opcode = \h07 \/ opcode = \h27 THEN format_load_store(w)
        ELSE IF category = None THEN "UNKNOWN"
        ELSE IF category = "OPCFG" THEN decode_configuration(w, category)
        ELSE decode_common(w, category)

\* disassemble_rvv: load/store words go to format_load_store, every other
\* opcode but 0x57 is UNKNOWN, and a 0x57 word goes by its category to the
\* configuration branch or straight to the common tail.
disassemble_rvv(w) ==
    LET opcode   == Bits(w, 0, \h7F)
        funct3   == Bits(w, 12, \h7)
        category == get_operand_category(funct3)
    IN  IF opcode = \h07 \/ opcode = \h27 THEN format_load_store(w)
        ELSE IF opcode # \h57 THEN "UNKNOWN"
        ELSE IF category = None THEN "UNKNOWN"
        ELSE IF category = "OPCFG" THEN decode_configuration(w, category)
        ELSE decode_common(w, category)

(***************************************************************************)
(* The words handed to the decoder.                                        *)
(***************************************************************************)

\* Registers sampled where a register index is only rendered: 0..MaxReg and 31.
MaxReg == 1

\* Opcodes other than the three the decoder routes on: 0..MaxOtherOpcode.
MaxOtherOpcode == 1

RegSample == (0 .. MaxReg) \cup {31}

ImmSample == RegSample \cup {15, 16}

VectorOpcodes == {\h07, \h27, \h57}

Opcodes == VectorOpcodes \cup (0 .. MaxOtherOpcode)

\* The word with the given fields (the encoding extract_fields takes apart).
Word(opcode, vd_rd, funct3, vs1_rs1, vs2, vm, funct6) ==
    [lo |-> opcode + vd_rd * 2^7 + funct3 * 2^12 + (vs1_rs1 % 2) * 2^15,
     hi |-> (vs1_rs1 \div 2) + vs2 * 2^4 + vm * 2^9 + funct6 * 2^10]

\* Every opcode, funct3, funct6 and vm, with sampled registers.
EncodingSweep ==
    {Word(op, MaxReg, f3, MaxReg, vs2, vm, f6) :
        op \in Opcodes, f3 \in 0 .. 7, f6 \in 0 .. 63, vm \in 0 .. 1, vs2 \in RegSample}

\* Bits 31:20 in full where they are decoded rather than rendered: the vtype
\* of a configuration word, the nf/mew/mop/width of a vector load or store.
UpperBitsSweep ==
    {Word(op, MaxReg, \b111, MaxReg, vs2, vm, f6) :
        op \in VectorOpcodes, f6 \in 0 .. 63, vm \in 0 .. 1, vs2 \in 0 .. 31}

\* Every 5-bit immediate of the vector-immediate category.
ImmediateSweep ==
    {Word(\h57, vd, \b011, imm, MaxReg, vm, f6) :
        vd \in RegSample, imm \in 0 .. 31, vm \in 0 .. 1, f6 \in 0 .. 63}

\* Register operands of every category, on sampled funct6 values.
OperandSweep ==
    {Word(op, vd, f3, vs1, vs2, vm, f6) :
        op \in VectorOpcodes, vd \in RegSample, f3 \in 0 .. 7, vs1 \in ImmSample,
        vs2 \in RegSample, vm \in 0 .. 1, f6 \in (0 .. MaxReg) \cup {\b100000}}

\* Words given by their halves rather than by their fields: the corner
\* values and every single bit of a half, in both halves.
CornerHalves == {0, \h5555, \hAAAA, \h7FFF, \hFFFF} \cup {2^k : k \in 0 .. 15}

RawSweep == {[hi |-> h, lo |-> l] : h \in CornerHalves, l \in CornerHalves}

Words ==
    EncodingSweep \cup UpperBitsSweep \cup ImmediateSweep \cup OperandSweep
        \cup RawSweep

(***************************************************************************)
(* The state machine: one call of disassemble_rvv on one word.             *)
(***************************************************************************)

Init ==
    /\ instruction \in Words
    /\ result = None
    /\ pc = "call"

\* disassemble_rvv(instruction) returns.
Disassemble ==
    /\ pc = "call"
    /\ result' = disassemble_rvv(instruction)
    /\ pc' = "done"
    /\ UNCHANGED instruction

Next == Disassemble

Spec == Init /\ [][Next]_vars

(***************************************************************************)
(* Properties of the decoder.  F is the word of the current call taken     *)
(* apart; each property speaks of the state after the call has returned.   *)
(***************************************************************************)

F == extract_fields(instruction)

Done == pc = "done"

IsConfiguration == F.opcode = \h57 /\ F.funct3 = \b111

\* Bits 30:29 of the word, the vill field of the vtype immediate.
IllegalField == Bits(instruction, 29, \h3)

StartsWith(s, prefix) ==
    Len(s) >= Len(prefix) /\ SubSeq(s, 1, Len(prefix)) = prefix

\* The word with bit 25 inverted.
FlipVm(w) ==
    [w EXCEPT !.hi = IF (w.hi \div 2^9) % 2 = 0 THEN w.hi + 2^9 ELSE w.hi - 2^9]

\* C1: disassemble_rvv returns a string for every word: the result of a call
\* is never None and never empty, on every route through the decoder.
C1_Totality ==
    Done => (result # None /\ result \in STRING /\ Len(result) > 0)

\* C1, the fall-through of the configuration branch: no config mnemonic, an
\* ILLEGAL vtype, and the common tail returned the sentinel.
C1_Witness ==
    /\ Done
    /\ IsConfiguration
    /\ F.funct6 # \b100000
    /\ F.vs2 # \b11111
    /\ get_config_mnemonic(F.funct6, F.vs2, F.vs1_rs1) = None
    /\ decode_vtype(Bits(instruction, 20, \h7FF)) = "ILLEGAL"
    /\ result = "UNKNOWN"

\* C2 as claimed: a configuration word whose illegal field is nonzero renders
\* exactly the token ILLEGAL, whatever the other bits.
C2_IllegalRendersILLEGAL ==
    (Done /\ IsConfiguration /\ IllegalField # 0) => result = "ILLEGAL"

\* C3 as claimed: for every word, the output and the output of the word with
\* bit 25 inverted differ only by the trailing ", v0.t" of the vm = 0 one, or
\* both are UNKNOWN.
C3_MaskPolarityEveryWord ==
    Done =>
        LET other == disassemble_rvv(FlipVm(instruction))
            masked   == IF F.vm = 0 THEN result ELSE other
            unmasked == IF F.vm = 0 THEN other ELSE result
        IN  \/ masked = unmasked \o ", v0.t"
            \/ (masked = "UNKNOWN" /\ unmasked = "UNKNOWN")

\* C3 amended: the same for every word that is no configuration word (opcode
\* other than 0x57, or funct3 other than 0b111); in a configuration word bit
\* 25 belongs to the vtype immediate and is no mask bit.
C3_MaskPolarity ==
    (Done /\ ~IsConfiguration) =>
        LET other == disassemble_rvv(FlipVm(instruction))
            masked   == IF F.vm = 0 THEN result ELSE other
            unmasked == IF F.vm = 0 THEN other ELSE result
        IN  \/ masked = unmasked \o ", v0.t"
            \/ (masked = "UNKNOWN" /\ unmasked = "UNKNOWN")

\* C3: a masked vector load, whose unmasked twin renders without ", v0.t".
C3_Witness ==
    /\ Done
    /\ F.opcode = \h07
    /\ F.vm = 0
    /\ result = "vle64.v v1, (x1), v0.t"
    /\ disassemble_rvv(FlipVm(instruction)) = "vle64.v v1, (x1)"

\* The load/store fields of the word, as format_load_store names them.
LoadStoreOpcodes == {\h07, \h27}

Mop == Bits(instruction, 26, \h3)

Mew == Bits(instruction, 28, \h1)

Nf == Bits(instruction, 29, \h7)

MaskQualifier == IF F.vm = 0 THEN ", v0.t" ELSE ""

\* C4 as claimed: a unit-stride load whose bits 24:20 hold the whole-register
\* code 0b01000 renders as a whole-register load of nf+1 registers,
\* vl<nf+1>re<eew>.v, and never as a plain unit-stride load vle<eew>.v.
C4_WholeRegisterPrecedence ==
    (Done /\ F.opcode = \h07 /\ Mop = \b00 /\ F.vs2 = \b01000) =>
        /\ StartsWith(result, "vl" \o ToString(Nf + 1) \o "re")
        /\ ~StartsWith(result, "vle")

\* C5 as claimed, on the plain unit-stride form (nf = 0, mew = 0, bits 24:20
\* zero): the width field in bits 14:12 gives the element width by 0 -> 8,
\* 5 -> 16, 6 -> 32, 7 -> 64, the word renders as v[ls]e<eew>.v v<vd>, (x<rs1>),
\* and every other width is UNKNOWN.
C5_WidthTable ==
    (Done /\ F.opcode \in LoadStoreOpcodes /\ Mop = \b00 /\ Nf = 0 /\ Mew = 0
          /\ F.vs2 = 0) =>
        LET eew  == 0 :> "8" @@ 5 :> "16" @@ 6 :> "32" @@ 7 :> "64"
            stem == IF F.opcode = \h07 THEN "vle" ELSE "vse"
        IN  IF F.funct3 \in DOMAIN eew
            THEN result = stem \o eew[F.funct3] \o ".v v" \o ToString(F.vd_rd)
                          \o ", (x" \o ToString(F.vs1_rs1) \o ")" \o MaskQualifier
            ELSE result = "UNKNOWN"

\* C6 as claimed: a load or store with a recognized width (bits 14:12 in
\* {0, 5, 6, 7}, mew = 0) decodes to a mnemonic, never to UNKNOWN, under each
\* of the four mop values (for unit-stride, with bits 24:20 zero).
C6_EveryMopDecodes ==
    (Done /\ F.opcode \in LoadStoreOpcodes /\ F.funct3 \in {0, 5, 6, 7}
          /\ Mew = 0 /\ (Mop = \b00 => F.vs2 = 0)) =>
        result # "UNKNOWN"

\* The six lookup tables get_mnemonic consults, by name.
Tables ==
    [shift |-> shift_map, multiply |-> mul_map, arithmetic |-> opcode_map,
     reduction |-> red_map, float |-> fp_map, mask |-> mask_map]

\* The tables holding an entry for the pair (category, funct6).
TablesHolding(category, funct6) ==
    {t \in DOMAIN Tables : <<category, funct6>> \in DOMAIN Tables[t]}

IsArithmetic == F.opcode = \h57 /\ F.funct3 # \b111

Category == get_operand_category(F.funct3)

Resolved == get_mnemonic(F.funct6, Category, F.vs2, F.vs1_rs1, F.vd_rd)

\* C7 as claimed: for the category and funct6 of any word, at most one of the
\* six lookup tables holds an entry, so the mnemonic get_mnemonic resolves is
\* the entry of every table that holds the pair, whatever the order of the
\* lookups.
C7_TablesDisjoint ==
    (Done /\ IsArithmetic) =>
        LET holding == TablesHolding(Category, F.funct6)
        IN  /\ Cardinality(holding) <= 1
            /\ \A t \in holding : Tables[t][<<Category, F.funct6>>] = Resolved

ReductionMnemonics ==
    {"vredsum", "vredand", "vredor", "vredxor", "vredminu", "vredmin",
     "vredmaxu", "vredmax", "vfredosum", "vfredusum", "vfredmax", "vfredmin"}

\* C8 as claimed: a 0x57 word that decodes to a reduction mnemonic renders
\* with the suffix ".vs" in place of the suffix of its category.
C8_ReductionSuffix ==
    (Done /\ IsArithmetic /\ Resolved \in ReductionMnemonics) =>
        StartsWith(result, Resolved \o ".vs ")

\* C9: a vector-immediate word whose mnemonic resolves renders bits 19:15 as
\* a 5-bit two's complement number: 0..15 as themselves, 16..31 as the value
\* minus 32, always within -16..15.
C9_SignExtendedImmediate ==
    (Done /\ F.opcode = \h57 /\ F.funct3 = \b011 /\ Resolved # None) =>
        LET imm == IF F.vs1_rs1 <= 15 THEN F.vs1_rs1 ELSE F.vs1_rs1 - 32
        IN  /\ imm \in -16 .. 15
            /\ result = Resolved \o ".vi v" \o ToString(F.vd_rd) \o ", v"
                        \o ToString(F.vs2) \o ", " \o ToString(imm) \o MaskQualifier

\* C9: vadd.vi with the immediate field 0b11111, rendered as -1.
C9_Witness ==
    /\ Done
    /\ F.opcode = \h57
    /\ F.funct3 = \b011
    /\ F.funct6 = \b000000
    /\ F.vs1_rs1 = \b11111
    /\ F.vm = 1
    /\ result = "vadd.vi v" \o ToString(F.vd_rd) \o ", v" \o ToString(F.vs2) \o ", -1"

\* C10: the result is exactly UNKNOWN for every word whose opcode is none of
\* 0x07, 0x27, 0x57, and for every 0x57 word of a category other than
\* configuration whose (category, funct6) pair is in no lookup table.
C10_UnknownSentinel ==
    Done =>
        /\ F.opcode \notin {\h07, \h27, \h57} => result = "UNKNOWN"
        /\ (IsArithmetic /\ TablesHolding(Category, F.funct6) = {}) => result = "UNKNOWN"

\* C10: a vector-vector word on funct6 = 0b001000, which no table holds.
C10_Witness ==
    /\ Done
    /\ IsArithmetic
    /\ Category = "OPIVV"
    /\ F.funct6 = \b001000
    /\ TablesHolding(Category, F.funct6) = {}
    /\ result = "UNKNOWN"

\* The 11-bit vtype immediate of the word, bits 30:20.
Vtype == Bits(instruction, 20, \h7FF)

\* The vsetvli line of a legal vtype with the given LMUL token: register
\* operands from bits 11:7 and 19:15, SEW from bits 26:25, ta/ma from bits
\* 27 and 28 of the word.
VsetvliLine(lmul) ==
    LET sew == <<"e8", "e16", "e32", "e64">>[Bits(instruction, 25, \h3) + 1]
        ta  == IF Bits(instruction, 27, \h1) = 0 THEN "ta" ELSE "tu"
        ma  == IF Bits(instruction, 28, \h1) = 0 THEN "ma" ELSE "mu"
    IN  "vsetvli x" \o ToString(F.vd_rd) \o ", x" \o ToString(F.vs1_rs1)
        \o ", " \o sew \o ", " \o lmul \o ", " \o ta \o ", " \o ma

\* The LMUL tokens the claimed table allows for a value of the 3-bit field.
ClaimedLmul(field) ==
    IF field <= 3 THEN {<<"m1", "m2", "m4", "m8">>[field + 1]}
    ELSE IF field = 4 THEN {"reserved"}
    ELSE {"mf2", "mf4", "mf8"}

\* C11 as claimed: a vsetvli line of a legal vtype carries the LMUL token of
\* the claimed table: m1, m2, m4, m8 for the field values 0..3, a fractional
\* multiplier for 5, 6 and 7, reserved for 4, and no other token.
C11_LmulTable ==
    (Done /\ IsConfiguration /\ IllegalField = 0 /\ StartsWith(result, "vsetvli "))
        => \E lmul \in ClaimedLmul(Vtype % 8) : result = VsetvliLine(lmul)

\* C12: in the vector-vector integer category a funct6 held by both the
\* arithmetic and the reduction table (0b000000, 0b000010..0b000111) resolves
\* to the arithmetic mnemonic, and funct6 = 0 with vm = 1 renders exactly
\* vadd.vv v<vd>, v<vs2>, v<vs1>.
C12_ArithmeticOverReduction ==
    (Done /\ F.opcode = \h57 /\ F.funct3 = \b000) =>
        LET key  == <<"OPIVV", F.funct6>>
            both == key \in DOMAIN opcode_map /\ key \in DOMAIN red_map
            regs == " v" \o ToString(Bits(instruction, 7, \h1F))
                    \o ", v" \o ToString(Bits(instruction, 20, \h1F))
                    \o ", v" \o ToString(Bits(instruction, 15, \h1F))
        IN  /\ both <=> F.funct6 \in {\b000000} \cup (\b000010 .. \b000111)
            /\ both => /\ Resolved = opcode_map[key]
                       /\ result = opcode_map[key] \o ".vv" \o regs \o MaskQualifier
            /\ (F.funct6 = \b000000 /\ F.vm = 1) => result = "vadd.vv" \o regs

\* C12: vadd.vv, unmasked, where the reduction table holds vredsum.
C12_Witness ==
    /\ Done
    /\ F.opcode = \h57
    /\ F.funct3 = \b000
    /\ F.funct6 = \b000000
    /\ F.vm = 1
    /\ red_map[<<"OPIVV", F.funct6>>] = "vredsum"
    /\ F.vd_rd # F.vs2
    /\ result = "vadd.vv v" \o ToString(F.vd_rd) \o ", v" \o ToString(F.vs2)
                \o ", v" \o ToString(F.vs1_rs1)

\* C13: extract_fields partitions the word: the fields put back at their bit
\* positions give the word again, each field is within its width, and imm5
\* is vs1_rs1.
C13_LosslessPartition ==
    LET f == extract_fields(instruction)
    IN  /\ Word(f.opcode, f.vd_rd, f.funct3, f.vs1_rs1, f.vs2, f.vm, f.funct6)
               = instruction
        /\ f.opcode \in 0 .. 2^7 - 1
        /\ f.vd_rd \in 0 .. 2^5 - 1
        /\ f.funct3 \in 0 .. 2^3 - 1
        /\ f.vs1_rs1 \in 0 .. 2^5 - 1
        /\ f.vs2 \in 0 .. 2^5 - 1
        /\ f.vm \in 0 .. 1
        /\ f.funct6 \in 0 .. 2^6 - 1
        /\ f.imm5 = f.vs1_rs1

\* C13: a decoded word given by its halves, with every bit of the upper half
\* set, so that vs1_rs1 straddles the two halves with all its bits set.
C13_Witness ==
    /\ Done
    /\ F.vs1_rs1 = 31
    /\ F.vs2 = 31
    /\ F.vm = 1
    /\ F.funct6 = 63
    /\ instruction.hi = \hFFFF

MultiplyArithmeticRange == \b100000 .. \b100111

IntegerCategories == {"OPIVV", "OPIVX", "OPIVI"}

\* The pair (category, funct6) of the word is held by the multiply and by the
\* arithmetic table, in an integer category, at funct6 0b100000..0b100111.
MultiplyAndArithmetic ==
    /\ IsArithmetic
    /\ Category \in IntegerCategories
    /\ F.funct6 \in MultiplyArithmeticRange
    /\ <<Category, F.funct6>> \in DOMAIN mul_map
    /\ <<Category, F.funct6>> \in DOMAIN opcode_map

\* C14 as claimed: where both tables hold the pair, the multiply mnemonic is
\* the one resolved.
C14_MultiplyFirst ==
    (Done /\ MultiplyAndArithmetic) => Resolved = mul_map[<<Category, F.funct6>>]

\* C14 amended: where both tables hold the pair, OPIVV resolves to the
\* multiply mnemonic and OPIVX to the arithmetic one, which is rendered;
\* OPIVI has no multiply entry in the range and resolves to the arithmetic
\* mnemonic.
C14_MultiplyFirstOnlyOPIVV ==
    (Done /\ IsArithmetic /\ Category \in IntegerCategories
          /\ F.funct6 \in MultiplyArithmeticRange) =>
        LET key      == <<Category, F.funct6>>
            expected == IF Category = "OPIVV" THEN mul_map[key] ELSE opcode_map[key]
        IN  /\ MultiplyAndArithmetic <=> Category \in {"OPIVV", "OPIVX"}
            /\ key \in DOMAIN opcode_map
            /\ Resolved = expected
            /\ StartsWith(result, expected \o suffix_map[Category] \o " ")

\* C14: vector-scalar funct6 = 0b100000, held by both tables as vmul and
\* vsaddu, rendered as the arithmetic vsaddu.
C14_Witness ==
    /\ Done
    /\ MultiplyAndArithmetic
    /\ Category = "OPIVX"
    /\ F.funct6 = \b100000
    /\ mul_map[<<Category, F.funct6>>] = "vmul"
    /\ StartsWith(result, "vsaddu.vx ")

\* C15: a word of the vsetvli branch (configuration, funct6 other than
\* 0b100000, bits 24:20 all ones) with the illegal field zero renders the
\* LMUL token m7, and so none of m1, m2, m4, m8, mf2, mf4, mf8.
C15_VsetvliBranchIsM7 ==
    (Done /\ IsConfiguration /\ F.funct6 # \b100000 /\ F.vs2 = \b11111
          /\ IllegalField = 0) =>
        /\ Vtype % 8 = 7
        /\ result = VsetvliLine("m7")

\* C15: such a word with SEW e64, tail and mask undisturbed.
C15_Witness ==
    /\ Done
    /\ IsConfiguration
    /\ F.funct6 # \b100000
    /\ F.vs2 = \b11111
    /\ IllegalField = 0
    /\ result = "vsetvli x" \o ToString(F.vd_rd) \o ", x" \o ToString(F.vs1_rs1)
                \o ", e64, m7, tu, mu"

\* C16: no call returns UNKNOWN_FORMAT; a configuration word renders as a
\* vsetvl, vsetvli or vsetivli line or as UNKNOWN, and the only config
\* mnemonic handed to format_instruction is vsetvl.
C16_NeverUnknownFormat ==
    Done =>
        /\ result # "UNKNOWN_FORMAT"
        /\ IsConfiguration =>
            /\ \/ StartsWith(result, "vsetvl x")
               \/ StartsWith(result, "vsetvli x")
               \/ StartsWith(result, "vsetivli x")
               \/ result = "UNKNOWN"
            /\ (F.funct6 # \b100000 /\ F.vs2 # \b11111 /\ Resolved # None) =>
                /\ Resolved = "vsetvl"
                /\ result = format_instruction(Resolved, Category, F.vd_rd, F.vs2,
                                               F.vs1_rs1, F.imm5, F.vm)

\* C16: a configuration word that reaches format_instruction, as vsetvl.
C16_Witness ==
    /\ Done
    /\ IsConfiguration
    /\ F.funct6 = \b000000
    /\ F.vs2 # \b11111
    /\ result = "vsetvl x" \o ToString(F.vd_rd) \o ", x" \o ToString(F.vs1_rs1)
                \o ", x" \o ToString(F.vs2)

====
